---- MODULE Spec2Model ----
(***************************************************************************)
(* Startup sequence and layered configuration resolution of the minikube   *)
(* root command (cmd/minikube/cmd/root.go).                                *)
(*                                                                         *)
(* A run is: the user's environment is prepared (environment variables,    *)
(* config file, argument line), then main calls Execute, which parses the  *)
(* argument line, runs the cobra initializer initConfig, runs the          *)
(* PersistentPreRun hook of RootCmd and finally the subcommand body.       *)
(*                                                                         *)
(* Go strings are TLA+ strings.  A flag's Value field holds the text that  *)
(* Value.String() returns for the flag's typed value.                      *)
(***************************************************************************)
EXTENDS Integers, Sequences, FiniteSets

VARIABLES
    pc,          \* position of the process
    env,         \* os environment: config key |-> value of its MINIKUBE_ variable
    cfgFile,     \* entries written to the config file
    cfgStatus,   \* "absent", "ok", "invalid" (not JSON) or "unreadable"
    argv,        \* argument line: flag name |-> text given for it
    registered,  \* whitelisted names that pflag.Lookup finds
    flags,       \* flag name |-> [Value, Changed]
    viper,       \* [override, config, defaults, automaticEnv]
    warned,      \* initConfig logged the config-file warning
    created,     \* number of paths of dirs created so far, in list order
    mkdirErr,    \* 0, or the position in dirs of the path whose creation failed
    exitStatus,  \* -1 while running, else the process exit status
    steps,       \* hook steps performed: "deprecation", "clientType", ...
    logOut,      \* libmachine log streams: "default" or "discard"
    logDebug,    \* libmachine debug output enabled
    ran          \* the subcommand body was entered

vars == <<pc, env, cfgFile, cfgStatus, argv, registered, flags, viper, warned,
          created, mkdirErr, exitStatus, steps, logOut, logDebug, ran>>

\* Number of preparation steps (variables exported, config entries written,
\* flags passed, ...) before the process starts.
MaxSetup == 3

Unset == "<unset>"

----------------------------------------------------------------------------
(* Names *)

viperWhiteList == <<"v", "alsologtostderr", "log_dir">>

WhiteSet == {viperWhiteList[i] : i \in 1..Len(viperWhiteList)}

showLibmachineLogs == "show-libmachine-logs"

\* Flags of RootCmd.PersistentFlags() that viper.BindPFlags binds.
BoundPFlags == {showLibmachineLogs}

FlagNames == WhiteSet \cup BoundPFlags

\* The keys that setupViper seeds, with their defaults.
SeededDefaults ==
    [WantUpdateNotification    |-> "true",
     ReminderWaitPeriodInHours |-> "24",
     WantReportError           |-> "false",
     WantReportErrorPrompt     |-> "true",
     WantKubectlDownloadMsg    |-> "true"]

SeededKeys == DOMAIN SeededDefaults

Keys == FlagNames \cup SeededKeys

dirs == <<"minipath", "certs", "machines", "cache", "cache/iso",
          "cache/localkube", "config", "addons", "logs">>

\* constants.MakeMiniPath("logs")
LogsDir == "minipath/logs"

\* Verbosity thresholds of the log rerouting.
LibmachineLogLevel == 3
LibmachineDebugLevel == 7

----------------------------------------------------------------------------
(* Flag values: the glog flags v (Level), alsologtostderr (bool) and       *)
(* log_dir (string), and the bool flag show-libmachine-logs.               *)

Kind(name) ==
    CASE name = "v" -> "int"
      [] name = "log_dir" -> "string"
      [] OTHER -> "bool"

DefValue(name) ==
    CASE name = "v" -> "0"
      [] name = "log_dir" -> ""
      [] OTHER -> "false"

\* strconv.Atoi on the decimal texts of the model.
IntTexts == {"0", "2", "3", "7"}
Atoi(s) == CASE s = "0" -> 0 [] s = "2" -> 2 [] s = "3" -> 3 [] s = "7" -> 7

\* strconv.ParseBool
TrueTexts == {"1", "t", "T", "TRUE", "true", "True"}
FalseTexts == {"0", "f", "F", "FALSE", "false", "False"}

\* Whether Value.Set(text) succeeds for a flag of this kind.
Accepts(name, text) ==
    CASE Kind(name) = "int" -> text \in IntTexts
      [] Kind(name) = "bool" -> text \in TrueTexts \cup FalseTexts
      [] OTHER -> TRUE

\* Value.String() after a successful Value.Set(text).
Canon(name, text) ==
    CASE Kind(name) = "bool" -> (IF text \in TrueTexts THEN "true" ELSE "false")
      [] OTHER -> text

\* a.Value.Set(text) with the returned error dropped: a rejected text leaves
\* the value as it was.
ValueSet(name, old, text) ==
    IF Accepts(name, text) THEN Canon(name, text) ELSE old

\* Texts the environment, the config file and the argument line may hold.
Texts(k) ==
    CASE k = "v" -> {"2", "3", "7", "x"}
      [] k = "alsologtostderr" -> {"true", "1", "x"}
      [] k = "log_dir" -> {"", "/var/log"}
      [] k = showLibmachineLogs -> {"true"}
      [] k = "ReminderWaitPeriodInHours" -> {"12"}
      [] OTHER -> {IF SeededDefaults[k] = "true" THEN "false" ELSE "true"}

----------------------------------------------------------------------------
(* The viper store *)

NoEntries == [k \in Keys |-> Unset]

\* viper's lookup of a key: a bound pflag that was changed, then Set values,
\* then the environment (AutomaticEnv; an empty variable counts as not set),
\* then the config file, then the defaults; nil reads as "".
Find(vp, fl, ev, k) ==
    IF k \in BoundPFlags /\ fl[k].Changed THEN fl[k].Value
    ELSE IF vp.override[k] # Unset THEN vp.override[k]
    ELSE IF vp.automaticEnv /\ ev[k] \notin {Unset, ""} THEN ev[k]
    ELSE IF vp.config[k] # Unset THEN vp.config[k]
    ELSE IF vp.defaults[k] # Unset THEN vp.defaults[k]
    ELSE IF k \in BoundPFlags THEN DefValue(k)
    ELSE ""

\* viper.GetBool: cast.ToBool of the value found.
GetBool(vp, fl, ev, k) == Find(vp, fl, ev, k) \in TrueTexts

\* glog.V with a strict comparison.
VStrict(fl, level) == Atoi(fl["v"].Value) > level

\* glog.V(level): the verbosity is the value of flag v.
V(fl, level) == Atoi(fl["v"].Value) >= level

----------------------------------------------------------------------------
(* setFlagsUsingViper *)

\* The loop body without the viper.Set of an explicitly given flag.
ResolveFlagNoSet(st, ev, reg, name) ==
    IF name \notin reg THEN [st EXCEPT !.panicked = TRUE]
    ELSE
      LET vp1 == [st.viper EXCEPT !.defaults[name] = DefValue(name)]
          got == Find(vp1, st.flags, ev, name)
      IN  [st EXCEPT
             !.viper = vp1,
             !.flags[name] = [Value   |-> ValueSet(name, st.flags[name].Value, got),
                              Changed |-> TRUE]]

\* The loop body guarded by "if a == nil { continue }".
ResolveFlagSkipNil(st, ev, reg, name) ==
    IF name \notin reg THEN st
    ELSE
      LET a   == st.flags[name]
          vp1 == [st.viper EXCEPT !.defaults[name] = DefValue(name)]
          vp2 == IF a.Changed THEN [vp1 EXCEPT !.override[name] = a.Value] ELSE vp1
          got == Find(vp2, st.flags, ev, name)
      IN  [st EXCEPT
             !.viper = vp2,
             !.flags[name] = [Value |-> ValueSet(name, a.Value, got), Changed |-> TRUE]]

\* The loop body without "a.Changed = true".
ResolveFlagNoMark(st, ev, reg, name) ==
    IF name \notin reg THEN [st EXCEPT !.panicked = TRUE]
    ELSE
      LET a   == st.flags[name]
          vp1 == [st.viper EXCEPT !.defaults[name] = DefValue(name)]
          vp2 == IF a.Changed THEN [vp1 EXCEPT !.override[name] = a.Value] ELSE vp1
          got == Find(vp2, st.flags, ev, name)
      IN  [st EXCEPT
             !.viper = vp2,
             !.flags[name] = [Value |-> ValueSet(name, a.Value, got), Changed |-> a.Changed]]

\* One iteration of the loop over viperWhiteList.  pflag.Lookup returns nil
\* for a name that is not registered, and a.Name then panics.
ResolveFlag(st, ev, reg, name) ==
    IF name \notin reg THEN [st EXCEPT !.panicked = TRUE]
    ELSE
      LET a   == st.flags[name]
          vp1 == [st.viper EXCEPT !.defaults[name] = DefValue(name)]
          vp2 == IF a.Changed THEN [vp1 EXCEPT !.override[name] = a.Value] ELSE vp1
          got == Find(vp2, st.flags, ev, name)
      IN  [st EXCEPT
             !.viper = vp2,
             !.flags[name] = [Value |-> ValueSet(name, a.Value, got), Changed |-> TRUE]]

RECURSIVE SetFlagsFrom(_, _, _, _)
SetFlagsFrom(i, st, ev, reg) ==
    IF i > Len(viperWhiteList) \/ st.panicked THEN st
    ELSE SetFlagsFrom(i + 1, ResolveFlag(st, ev, reg, viperWhiteList[i]), ev, reg)

setFlagsUsingViper(st, ev, reg) == SetFlagsFrom(1, st, ev, reg)

----------------------------------------------------------------------------
(* setupViper and initConfig *)

\* setupViper without viper.AutomaticEnv().
setupViperNoEnv(st, ev, reg) ==
    LET seeded == [k \in Keys |->
                     IF k \in SeededKeys THEN SeededDefaults[k] ELSE st.viper.defaults[k]]
    IN  setFlagsUsingViper([st EXCEPT !.viper.defaults = seeded], ev, reg)

\* setupViper with the reminder period's default left out.
setupViperNoReminder(st, ev, reg) ==
    LET seeded == [k \in Keys |->
                     IF k \in SeededKeys \ {"ReminderWaitPeriodInHours"}
                     THEN SeededDefaults[k] ELSE st.viper.defaults[k]]
    IN  setFlagsUsingViper([st EXCEPT !.viper.automaticEnv = TRUE,
                                      !.viper.defaults = seeded], ev, reg)

setupViper(st, ev, reg) ==
    LET seeded == [k \in Keys |->
                     IF k \in SeededKeys THEN SeededDefaults[k] ELSE st.viper.defaults[k]]
    IN  setFlagsUsingViper([st EXCEPT !.viper.automaticEnv = TRUE,
                                      !.viper.defaults = seeded], ev, reg)

\* viper.ReadInConfig on the JSON file at constants.ConfigFile.
ReadInConfig(status, file) ==
    IF status = "ok" THEN [err |-> FALSE, config |-> file]
    ELSE [err |-> TRUE, config |-> NoEntries]

----------------------------------------------------------------------------
(* State after package initialisation *)

\* init(): the glog flags are registered with their defaults, and log_dir,
\* not yet changed, is set to the logs directory.
InitFlags ==
    [n \in FlagNames |->
        [Value   |-> IF n = "log_dir" THEN LogsDir ELSE DefValue(n),
         Changed |-> FALSE]]

Init ==
    /\ pc = "setup"
    /\ env = NoEntries
    /\ cfgFile = NoEntries
    /\ cfgStatus = "absent"
    /\ argv = [n \in FlagNames |-> Unset]
    /\ registered = WhiteSet
    /\ flags = InitFlags
    /\ viper = [override |-> NoEntries, config |-> NoEntries,
                defaults |-> NoEntries, automaticEnv |-> FALSE]
    /\ warned = FALSE
    /\ created = 0
    /\ mkdirErr = 0
    /\ exitStatus = -1
    /\ steps = {}
    /\ logOut = "default"
    /\ logDebug = FALSE
    /\ ran = FALSE

----------------------------------------------------------------------------
(* Preparation of the process's surroundings *)

SetupCount ==
      Cardinality({k \in Keys : env[k] # Unset})
    + Cardinality({k \in Keys : cfgFile[k] # Unset})
    + Cardinality({n \in FlagNames : argv[n] # Unset})
    + (IF cfgStatus \in {"invalid", "unreadable"} THEN 1 ELSE 0)
    + Cardinality(WhiteSet \ registered)

CanSetup == pc = "setup" /\ SetupCount < MaxSetup

\* The variable MINIKUBE_<KEY> is exported.
SetEnv ==
    /\ CanSetup
    /\ \E k \in Keys : \E t \in Texts(k) :
         /\ env[k] = Unset
         /\ env' = [env EXCEPT ![k] = t]
    /\ UNCHANGED <<pc, cfgFile, cfgStatus, argv, registered, flags, viper, warned,
                   created, mkdirErr, exitStatus, steps, logOut, logDebug, ran>>

\* An entry is written to the config file.
WriteConfig ==
    /\ CanSetup
    /\ \E k \in Keys : \E t \in Texts(k) :
         /\ cfgFile[k] = Unset
         /\ cfgFile' = [cfgFile EXCEPT ![k] = t]
    /\ cfgStatus' = IF cfgStatus = "absent" THEN "ok" ELSE cfgStatus
    /\ UNCHANGED <<pc, env, argv, registered, flags, viper, warned,
                   created, mkdirErr, exitStatus, steps, logOut, logDebug, ran>>

\* The config file is left with text that is no JSON, or made unreadable.
SpoilConfig ==
    /\ CanSetup
    /\ cfgStatus \in {"absent", "ok"}
    /\ \E s \in {"invalid", "unreadable"} : cfgStatus' = s
    /\ UNCHANGED <<pc, env, cfgFile, argv, registered, flags, viper, warned,
                   created, mkdirErr, exitStatus, steps, logOut, logDebug, ran>>

\* A flag is put on the argument line.
PassFlag ==
    /\ CanSetup
    /\ \E n \in FlagNames : \E t \in Texts(n) :
         /\ argv[n] = Unset
         /\ argv' = [argv EXCEPT ![n] = t]
    /\ UNCHANGED <<pc, env, cfgFile, cfgStatus, registered, flags, viper, warned,
                   created, mkdirErr, exitStatus, steps, logOut, logDebug, ran>>

\* A harness removes a whitelisted flag from the flag set.
Unregister ==
    /\ CanSetup
    /\ \E n \in registered : registered' = registered \ {n}
    /\ UNCHANGED <<pc, env, cfgFile, cfgStatus, argv, flags, viper, warned,
                   created, mkdirErr, exitStatus, steps, logOut, logDebug, ran>>

----------------------------------------------------------------------------
(* Execute *)

\* Whether the flag set parses the text given for flag n.
Parses(n) == (n \in WhiteSet => n \in registered) /\ Accepts(n, argv[n])

ArgsParse == \A n \in FlagNames : argv[n] # Unset => Parses(n)

\* pflag's parse of the argument line: each flag given is set and marked.
ParseFlags(fl) ==
    [n \in FlagNames |->
        IF argv[n] # Unset
        THEN [Value |-> ValueSet(n, fl[n].Value, argv[n]), Changed |-> TRUE]
        ELSE fl[n]]

\* Execute: RootCmd.Execute parses the argument line; an error it returns
\* ends the process through glog.Exitln.
Execute ==
    /\ pc = "setup"
    /\ IF ArgsParse
       THEN /\ flags' = ParseFlags(flags)
            /\ pc' = "parsed"
            /\ UNCHANGED exitStatus
       ELSE /\ pc' = "exited"
            /\ exitStatus' = 1
            /\ UNCHANGED flags
    /\ UNCHANGED <<env, cfgFile, cfgStatus, argv, registered, viper, warned,
                   created, mkdirErr, steps, logOut, logDebug, ran>>

\* initConfig returning as soon as the config file cannot be read.
initConfigReturnOnError ==
    /\ pc = "parsed"
    /\ LET rd == ReadInConfig(cfgStatus, cfgFile)
           st == IF rd.err
                 THEN [viper |-> viper, flags |-> flags, panicked |-> FALSE]
                 ELSE setupViper([viper    |-> [viper EXCEPT !.config = rd.config],
                                  flags    |-> flags,
                                  panicked |-> FALSE], env, registered)
       IN  /\ warned' = rd.err
           /\ viper' = st.viper
           /\ flags' = st.flags
           /\ pc' = IF st.panicked THEN "panicked" ELSE "prerun"
           /\ exitStatus' = IF st.panicked THEN 2 ELSE exitStatus
    /\ UNCHANGED <<env, cfgFile, cfgStatus, argv, registered,
                   created, mkdirErr, steps, logOut, logDebug, ran>>

\* initConfig, which cobra runs as an initializer before the hooks of the
\* command: read the config file, warn on failure, then setupViper.  A panic
\* in setFlagsUsingViper ends the process with status 2.
initConfig ==
    /\ pc = "parsed"
    /\ LET rd == ReadInConfig(cfgStatus, cfgFile)
           st == setupViper([viper    |-> [viper EXCEPT !.config = rd.config],
                             flags    |-> flags,
                             panicked |-> FALSE], env, registered)
       IN  /\ warned' = rd.err
           /\ viper' = st.viper
           /\ flags' = st.flags
           /\ pc' = IF st.panicked THEN "panicked" ELSE "prerun"
           /\ exitStatus' = IF st.panicked THEN 2 ELSE exitStatus
    /\ UNCHANGED <<env, cfgFile, cfgStatus, argv, registered,
                   created, mkdirErr, steps, logOut, logDebug, ran>>

----------------------------------------------------------------------------
(* RootCmd.PersistentPreRun *)

\* The directory loop logging the error and going on to the next path.
MkdirAllKeepGoing ==
    /\ pc = "prerun"
    /\ created < Len(dirs)
    /\ \E ok \in BOOLEAN :
         /\ created' = created + 1
         /\ mkdirErr' = IF ok \/ mkdirErr # 0 THEN mkdirErr ELSE created + 1
    /\ UNCHANGED <<pc, exitStatus, env, cfgFile, cfgStatus, argv, registered, flags,
                   viper, warned, steps, logOut, logDebug, ran>>

\* One iteration of the loop over dirs: os.MkdirAll succeeds or fails, and a
\* failure ends the process through glog.Exitf.
MkdirAll ==
    /\ pc = "prerun"
    /\ created < Len(dirs)
    /\ \E ok \in BOOLEAN :
         IF ok
         THEN /\ created' = created + 1
              /\ UNCHANGED <<mkdirErr, pc, exitStatus>>
         ELSE /\ mkdirErr' = created + 1
              /\ pc' = "exited"
              /\ exitStatus' = 1
              /\ UNCHANGED created
    /\ UNCHANGED <<env, cfgFile, cfgStatus, argv, registered, flags, viper, warned,
                   steps, logOut, logDebug, ran>>

\* The loop over dirs ending one path early.
DirsDoneEarly == created >= Len(dirs) - 1

\* The loop over dirs has ended.
DirsDone == created >= Len(dirs)

\* The deprecation notice for --show-libmachine-logs, and the client type.
Deprecation ==
    /\ pc = "prerun"
    /\ DirsDone
    /\ steps' = steps \cup {"clientType"}
                      \cup (IF GetBool(viper, flags, env, showLibmachineLogs)
                            THEN {"deprecation"} ELSE {})
    /\ pc' = "reroute"
    /\ UNCHANGED <<env, cfgFile, cfgStatus, argv, registered, flags, viper, warned,
                   created, mkdirErr, exitStatus, logOut, logDebug, ran>>

\* Log rerouting: below level 3 the libmachine streams are discarded, from
\* level 7 on libmachine debug output is enabled.
Reroute ==
    /\ pc = "reroute"
    /\ logOut' = IF ~V(flags, LibmachineLogLevel) THEN "discard" ELSE logOut
    /\ logDebug' = IF V(flags, LibmachineDebugLevel) THEN TRUE ELSE logDebug
    /\ steps' = steps \cup {"reroute"}
    /\ pc' = "notify"
    /\ UNCHANGED <<env, cfgFile, cfgStatus, argv, registered, flags, viper, warned,
                   created, mkdirErr, exitStatus, ran>>

enableUpdateNotification == TRUE
enableKubectlDownloadMsg == TRUE

\* The update and kubectl-download notices; what they find or fail to fetch
\* does not come back to the hook.
Notify ==
    /\ pc = "notify"
    /\ \E fetched \in BOOLEAN :
         steps' = steps
                  \cup (IF enableUpdateNotification THEN {"updateNotice"} ELSE {})
                  \cup (IF enableKubectlDownloadMsg THEN {"kubectlNotice"} ELSE {})
                  \cup (IF fetched THEN {} ELSE {"fetchFailed"})
    /\ pc' = "run"
    /\ UNCHANGED <<env, cfgFile, cfgStatus, argv, registered, flags, viper, warned,
                   created, mkdirErr, exitStatus, logOut, logDebug, ran>>

\* The body of the subcommand, then the return from Execute.
RunSubcommand ==
    /\ pc = "run"
    /\ ran' = TRUE
    /\ pc' = "done"
    /\ exitStatus' = 0
    /\ UNCHANGED <<env, cfgFile, cfgStatus, argv, registered, flags, viper, warned,
                   created, mkdirErr, steps, logOut, logDebug>>

----------------------------------------------------------------------------
(* Specifications *)

Next ==
    \/ SetEnv
    \/ WriteConfig
    \/ SpoilConfig
    \/ PassFlag
    \/ Execute
    \/ initConfig
    \/ MkdirAll
    \/ Deprecation
    \/ Reroute
    \/ Notify
    \/ RunSubcommand

\* The program as built: glog registers every whitelisted flag.
Spec == Init /\ [][Next]_vars

\* The program under a harness that may register an incomplete flag set.
NextIncomplete == Unregister \/ Next

SpecIncomplete == Init /\ [][NextIncomplete]_vars

----------------------------------------------------------------------------
(* Vocabulary of the properties *)

\* The flag was explicitly supplied on the command line.
Supplied(n) == argv[n] # Unset

\* The config file is read and holds an entry for the key.
CfgHolds(k) == cfgStatus = "ok" /\ cfgFile[k] # Unset

\* What the ConfigStore answers for the key.
Lookup(k) == Find(viper, flags, env, k)

CompiledDefault(k) == IF k \in SeededKeys THEN SeededDefaults[k] ELSE DefValue(k)

\* The process ended in Execute, on an argument line that does not parse.
ExitedInExecute == pc = "exited" /\ mkdirErr = 0

\* initConfig has run to its end.
Resolved == pc \in {"prerun", "reroute", "notify", "run", "done"}
            \/ (pc = "exited" /\ mkdirErr # 0)

\* The flag's value is the typed value that the text denotes.
ValueIs(n, text) == Accepts(n, text) /\ flags[n].Value = Canon(n, text)

\* Nothing of the hook after the directory loop has happened.
NoLaterStep == steps = {} /\ logOut = "default" /\ ~logDebug /\ ~ran

----------------------------------------------------------------------------
(* C1 *)

\* C1: after resolution, a whitelisted flag that was supplied on the command
\* line has the supplied value, and so has the ConfigStore's lookup of its
\* name, whatever the config file and the environment hold for it.
C1_ExplicitFlagWins ==
    Resolved =>
      \A n \in WhiteSet :
        Supplied(n) => /\ ValueIs(n, argv[n])
                       /\ Lookup(n) = Canon(n, argv[n])

C1_Witness ==
    /\ Resolved
    /\ \E n \in WhiteSet :
         /\ Supplied(n) /\ CfgHolds(n) /\ env[n] \notin {Unset, ""}
         /\ Accepts(n, env[n]) /\ Accepts(n, cfgFile[n])
         /\ Canon(n, env[n]) # Canon(n, argv[n])
         /\ Canon(n, cfgFile[n]) # Canon(n, argv[n])

----------------------------------------------------------------------------
(* C2 *)

\* Both a config-file entry and an environment variable exist for a flag
\* that was not supplied, both acceptable to the flag and of different value.
FileAndEnvDiffer(n) ==
    /\ ~Supplied(n) /\ CfgHolds(n) /\ env[n] \notin {Unset, ""}
    /\ Accepts(n, env[n]) /\ Accepts(n, cfgFile[n])
    /\ Canon(n, env[n]) # Canon(n, cfgFile[n])

----------------------------------------------------------------------------
(* C3 *)

\* MINIKUBE_V holds a number, v is not on the command line and not in the
\* config file.
EnvVerbosity == ~Supplied("v") /\ cfgFile["v"] = Unset /\ env["v"] \in IntTexts

\* C3: with verbosity n coming from the environment alone, the hook reaches
\* log rerouting with verbosity n, discards the libmachine streams exactly
\* when n < 3 and enables libmachine debug output exactly when n >= 7.
C3_EnvVerbosityReroutes ==
    EnvVerbosity =>
      /\ pc = "reroute" => flags["v"].Value = env["v"]
      /\ pc \in {"notify", "run", "done"} =>
           /\ logOut = "discard" <=> Atoi(env["v"]) < LibmachineLogLevel
           /\ logDebug <=> Atoi(env["v"]) >= LibmachineDebugLevel

C3_Witness ==
    /\ EnvVerbosity /\ env["v"] = "3"
    /\ pc = "done" /\ logOut = "default" /\ ~logDebug

----------------------------------------------------------------------------
(* C4 *)

\* Only the config file speaks for the flag.
FileOnly(n) == ~Supplied(n) /\ env[n] = Unset /\ CfgHolds(n)

\* C4 as stated: a flag for which only the config file holds a value has that
\* value after resolution and is marked changed.
C4_FileValueTaken ==
    Resolved =>
      \A n \in WhiteSet :
        FileOnly(n) => ValueIs(n, cfgFile[n]) /\ flags[n].Changed

\* C4, amended: a flag for which only the config file holds a value is marked
\* changed after resolution; it has the config-file value if its type accepts
\* that value, and otherwise the value it had before resolution.
C4_AcceptedFileValueTaken ==
    Resolved =>
      \A n \in WhiteSet :
        FileOnly(n) =>
          /\ flags[n].Changed
          /\ IF Accepts(n, cfgFile[n]) THEN ValueIs(n, cfgFile[n])
             ELSE flags[n].Value = InitFlags[n].Value

C4_Witness ==
    /\ Resolved
    /\ \E n \in WhiteSet :
         /\ FileOnly(n) /\ Accepts(n, cfgFile[n])
         /\ Canon(n, cfgFile[n]) # InitFlags[n].Value
         /\ flags[n].Value = Canon(n, cfgFile[n])

----------------------------------------------------------------------------
(* C5 *)

\* No source but the compiled default speaks for the key.
NoSource(k) ==
    /\ k \in FlagNames => ~Supplied(k)
    /\ env[k] = Unset
    /\ cfgFile[k] = Unset

\* C5: a key with no command-line value, no environment variable and no
\* config-file entry resolves to its compiled default: the flag's default
\* for a whitelisted flag, and true, 24, false, true, true for the seeded keys.
C5_DefaultsApply ==
    Resolved =>
      \A k \in WhiteSet \cup SeededKeys :
        NoSource(k) =>
          /\ Lookup(k) = CompiledDefault(k)
          /\ k \in WhiteSet => flags[k].Value = DefValue(k)

C5_Witness ==
    /\ Resolved
    /\ \A k \in WhiteSet \cup SeededKeys : NoSource(k)
    /\ Lookup("ReminderWaitPeriodInHours") = "24"
    /\ flags["v"].Value = "0"

----------------------------------------------------------------------------
(* C6 *)

\* Position in the whitelist of the first name that is not registered, or 0.
FirstMissing ==
    LET miss == {i \in 1..Len(viperWhiteList) : viperWhiteList[i] \notin registered}
    IN  IF miss = {} THEN 0 ELSE CHOOSE i \in miss : \A j \in miss : i <= j

\* C6: with a whitelisted name that has no registered flag, resolution ends
\* the process with a panic: it does not complete, the entries after the
\* missing one are not resolved, and neither the hook nor the subcommand body
\* is reached.
C6_MissingFlagPanics ==
    registered # WhiteSet =>
      /\ pc \in {"setup", "parsed", "panicked", "exited"}
      /\ pc = "exited" => ExitedInExecute
      /\ created = 0 /\ NoLaterStep
      /\ pc = "panicked" =>
           /\ exitStatus = 2
           /\ ~ENABLED NextIncomplete
           /\ \A j \in 1..Len(viperWhiteList) :
                j >= FirstMissing =>
                  flags[viperWhiteList[j]] = ParseFlags(InitFlags)[viperWhiteList[j]]

C6_Witness ==
    /\ pc = "panicked"
    /\ registered = WhiteSet \ {"alsologtostderr"}
    /\ flags["v"].Changed /\ ~flags["log_dir"].Changed

----------------------------------------------------------------------------
(* C7 *)

\* C7 as stated, its last sentence: a process that ended with a non-zero
\* status ended on a directory-creation failure.
C7_OnlyMkdirTerminates ==
    exitStatus \notin {-1, 0} => mkdirErr # 0

\* C7, amended: a failed creation of a path ends the process at once with a
\* non-zero status, no later path is created and no later step of the hook
\* nor the subcommand body runs; a failed notice fetch does not end the
\* process; and a process that ended with a non-zero status ended either on a
\* directory-creation failure or in Execute on an argument line that does not
\* parse, before any bootstrap step.
C7_MkdirFailureIsFatal ==
    /\ mkdirErr # 0 =>
         /\ pc = "exited" /\ exitStatus = 1
         /\ created = mkdirErr - 1
         /\ NoLaterStep
         /\ ~ENABLED Next
    /\ "fetchFailed" \in steps => pc \in {"run", "done"}
    /\ exitStatus \notin {-1, 0} =>
         \/ mkdirErr # 0
         \/ /\ ~ArgsParse /\ pc = "exited" /\ ~ENABLED Next
            /\ ~viper.automaticEnv /\ ~warned /\ created = 0 /\ NoLaterStep

C7_Witness ==
    /\ pc = "exited" /\ mkdirErr = 4 /\ created = 3 /\ exitStatus = 1

----------------------------------------------------------------------------
(* C8 *)

\* initConfig is behind the process.
InitConfigDone == pc \notin {"setup", "parsed"} /\ ~ExitedInExecute

\* C8: with a config file that is absent, unreadable or no JSON, initConfig
\* warns and does not end the process, binds the environment and resolves the
\* flags all the same, takes nothing from the file, and every key that no
\* flag and no environment variable speaks for has its compiled default.
C8_BadConfigFileDegrades ==
    cfgStatus # "ok" =>
      /\ pc = "exited" => (ExitedInExecute \/ mkdirErr # 0)
      /\ pc # "panicked"
      /\ InitConfigDone =>
           /\ warned
           /\ viper.automaticEnv
           /\ viper.config = NoEntries
           /\ \A n \in WhiteSet :
                /\ flags[n].Changed
                /\ (~Supplied(n) /\ env[n] \notin {Unset, ""}) => Lookup(n) = env[n]
           /\ \A k \in WhiteSet \cup SeededKeys :
                ((k \in FlagNames => ~Supplied(k)) /\ env[k] = Unset) =>
                   /\ Lookup(k) = CompiledDefault(k)
                   /\ k \in WhiteSet => flags[k].Value = DefValue(k)

C8_Witness ==
    /\ cfgStatus = "invalid" /\ pc = "done" /\ warned
    /\ cfgFile["v"] = "7" /\ flags["v"].Value = "0"
    /\ \A k \in Keys : env[k] = Unset
    /\ \A n \in FlagNames : ~Supplied(n)

----------------------------------------------------------------------------
(* C9 *)

\* C9 as stated, its last part: no config-file read and no flag resolution
\* happens before all directories of the list exist.
C9_DirsBeforeConfig ==
    (warned \/ viper.automaticEnv \/ \E n \in WhiteSet : viper.defaults[n] # Unset)
        => created = Len(dirs)

\* C9, amended: config-file ingestion, environment binding and flag resolution
\* (initConfig) come first, then directory provisioning, then the deprecation
\* notice and the client type, then log rerouting, then the notices, and only
\* then the subcommand body.
C9_StartupOrder ==
    /\ (created > 0 \/ mkdirErr # 0) =>
          /\ viper.automaticEnv
          /\ \A n \in WhiteSet : flags[n].Changed /\ viper.defaults[n] # Unset
          /\ cfgStatus # "ok" <=> warned
    /\ steps # {} => created = Len(dirs) /\ "clientType" \in steps
    /\ (logOut = "discard" \/ logDebug \/ "reroute" \in steps) => "clientType" \in steps
    /\ steps \cap {"updateNotice", "kubectlNotice", "fetchFailed"} # {} =>
          "reroute" \in steps
    /\ ran => {"updateNotice", "kubectlNotice"} \subseteq steps
    /\ pc = "done" <=> ran

C9_Witness ==
    /\ ran /\ created = Len(dirs) /\ warned /\ "deprecation" \in steps
    /\ logOut = "discard"

----------------------------------------------------------------------------
(* C10 *)

\* C10: if log_dir comes neither from the command line, nor from the
\* environment, nor from the config file, then after resolution the log_dir
\* flag still holds the logs directory that init installed.
C10_LogDirSurvives ==
    (Resolved /\ NoSource("log_dir")) => flags["log_dir"].Value = LogsDir

====
